---- MODULE Spec2Model ----
(***************************************************************************)
(* Verification model of the TimeFly tracking core.                        *)
(*                                                                         *)
(* Part 1: the pulse outbox of src/tracking/storage.ts (addPulse,          *)
(* getAndClearPulses, sync) driven by the timers of createTrackingManager  *)
(* (src/tracking/manager.ts) and of createPulseGenerator                   *)
(* (src/tracking/pulse.ts).                                                *)
(*                                                                         *)
(* Part 2: the pulse queue of the StorageService / TrackingService         *)
(* generation of the code (services/storage.ts with addPulse, getPulses,   *)
(* clearPulses; services/trackingService.ts with handlePulse, handleSync). *)
(*                                                                         *)
(* Every `await` of the source is a point where other callbacks of the     *)
(* single-threaded event loop may run, so a handler is cut into one action *)
(* per synchronous stretch.  The persisted store (vscode Memento) makes a  *)
(* value written by update() visible to get() at once; the promise that    *)
(* update() returns settles later and may reject.                          *)
(***************************************************************************)
EXTENDS Integers, Sequences, FiniteSets, TLC

\* ------------------------------------------------------------------ bounds
\* calls of addPulse and of sync() that a behaviour makes, taken together
MaxCalls == 4
\* delayed initial syncs that are pending at a time
MaxTimers == 1

\* the pulses handed to addPulse, numbered in the order of the calls; one of
\* the calls is left to sync()
Pulses == 1..(MaxCalls - 1)
\* the sync() calls, numbered in the order of the calls
SyncIds == 1..MaxCalls

\* calls of recordActivity that a behaviour makes
MaxSignals == 2

\* activity names that are active in one window
MaxNames == 3

\* 10 s windows that the clock covers
MaxWindows == 20

\* tracking/constants.ts
ACTIVITY_EXPIRATION_THRESHOLD == 90000
IDLE_THRESHOLD == 90000
INACTIVE_THRESHOLD == 60000
PULSE_GENERATION_INTERVAL == 10000
\* the debounce window of recordActivity
DETECTOR_DEBOUNCE_MS == 250

\* HTTP statuses the collector may answer with
Statuses == {200, 204, 500}

VARIABLES
    pulseBuffer,      \* globalState[PULSE_STORAGE_KEY]: sequence of pulses
    apiKey,           \* secrets[API_KEY] is present
    userInfo,         \* globalState[USER_INFO] is present
    isAuthenticated,  \* globalState[IS_AUTHENTICATED]
    isRunning,        \* createTrackingManager.isRunning
    syncInterval,     \* createTrackingManager.syncInterval is set
    pulseInterval,    \* createPulseGenerator.pulseInterval is set
    initialSync,      \* pending setTimeout(sync, 5000) callbacks
    sync,             \* the sync() calls: position, locals, settled value
    add,              \* the addPulse(p) calls: position
    received,         \* pulses the collector has acknowledged with 2xx
    faults,           \* the persisted store may reject a write
    pulseQueue,       \* globalState[PULSE_QUEUE] (StorageService)
    qadd,             \* StorageService.addPulse(p) calls: position, local
    qsync,            \* TrackingService.handleSync calls: position, local
    tsRunning,        \* TrackingService.isRunning
    tsTimers,         \* TrackingService.pulseInterval and syncInterval are set
    tsStartPc,        \* position of TrackingService.start
    now,              \* the clock: Date.now() / performance.now(), in ms
    workspaceName,    \* vscode.workspace.name
    activeActivities, \* createActivityClassifier.activeActivities
    lastEventTimestamp, \* createActivityClassifier.lastEventTimestamp
    emitted,          \* the pulse the latest generatePulse tick built, if any
    rawDurations,     \* generateEvent: end - start of every active name
    scaled,           \* generateEvent: the duration_ms of the entries it emits
    trackerRunning,   \* startTracking: the timers are set (not disposed)
    lastUserActivity, \* startTracking.lastUserActivity
    activeNames,      \* startTracking.activeActivities, in insertion order
    firstSeen,        \* startTracking.firstSeen
    lastSeen,         \* startTracking.lastSeen
    lastTrigger,      \* startTracking.lastTrigger
    windowStart,      \* startTracking.windowStart
    events,           \* the buffer _events
    ticks,            \* firings of the event timer so far
    signals,          \* calls of recordActivity so far
    activityMeta,     \* startTracking.activityMeta
    currentActivities, \* state.ts: currentActivities
    idleTimer,        \* state.ts: the timeout of goIdle is pending
    inactiveTimer,    \* state.ts: the timeout of goInactive is pending
    isTracking,       \* manager.ts: isTracking
    pulseCheck,       \* the runPulseCheck in flight: position and pulseActivities
    created,          \* the pulse the latest runPulseCheck created, if any
    returned,         \* what a caller of state.ts getCurrentActivities() holds
    dbPending,        \* createDebounce: the timeouts that are set and not cleared
    dbTimer,          \* createDebounce: the timeout that `timer` refers to, if any
    dbInvoked,        \* the calls of fn so far: argument and time
    dbCalls,          \* the times of the calls of the debounced function so far
    stPending,        \* state.ts: the timeouts that are set, not cleared, not fired
    idleHandle,       \* state.ts: when the timeout `idleTimer` refers to is due
    inactiveHandle,   \* state.ts: when the timeout `inactiveTimer` refers to is due
    lastRecordAt,     \* the time of the latest recordActivity
    initAt,           \* the time of the latest initStateManager
    enteredIdleAt,    \* the time of the latest goIdle
    dailyProductiveMs, \* the tracker's productive time of the date it loaded
    utcDay,           \* the UTC calendar day of the wall clock, counted from 0
    dailySummary      \* storage.ts: the stored DailySummary, if any

authVars == <<apiKey, userInfo, isAuthenticated>>
mgrVars == <<isRunning, syncInterval, pulseInterval, initialSync>>
outboxVars == <<pulseBuffer, sync, add, received>>
queueVars == <<pulseQueue, qadd, qsync, tsRunning, tsTimers, tsStartPc>>
genVars == <<now, workspaceName, activeActivities, lastEventTimestamp, emitted>>
scaleVars == <<rawDurations, scaled>>
trackerVars == <<trackerRunning, lastUserActivity, activeNames, firstSeen, lastSeen,
                 lastTrigger, windowStart, events, ticks, signals, activityMeta,
                 dailyProductiveMs>>
stateVars == <<currentActivities, idleTimer, inactiveTimer, isTracking, pulseCheck, created>>
debounceVars == <<dbPending, dbTimer, dbInvoked, dbCalls>>
timerVars == <<stPending, idleHandle, inactiveHandle, lastRecordAt, initAt, enteredIdleAt>>
dailyVars == <<utcDay, dailySummary>>
restVars == <<debounceVars, timerVars, dailyVars>>
callerVars == <<returned>>
trackVars == <<genVars, scaleVars, trackerVars, stateVars, callerVars, restVars>>
exceptGen == <<scaleVars, trackerVars, stateVars, callerVars, restVars>>
exceptScale == <<genVars, trackerVars, stateVars, callerVars, restVars>>
exceptTracker == <<genVars, scaleVars, stateVars, callerVars, restVars>>
exceptState == <<genVars, scaleVars, trackerVars, callerVars, restVars>>
coreVars == <<authVars, mgrVars, outboxVars, faults, queueVars>>
vars == <<pulseBuffer, apiKey, userInfo, isAuthenticated, isRunning,
          syncInterval, pulseInterval, initialSync, sync, add, received,
          faults, pulseQueue, qadd, qsync, tsRunning, tsTimers, tsStartPc,
          trackVars>>

\* ----------------------------------------------------------------- helpers
Range(f) == {f[i] : i \in DOMAIN f}

\* A sync() call that has started and not yet settled
InFlight(s) == sync[s].pc # "idle"

\* Outcomes of one write to the persisted store: FALSE = stored, TRUE = rejected
WriteOutcomes == IF faults THEN BOOLEAN ELSE {FALSE}

\* a get() that does not see a value whose update() is still pending
getBufferedPulsesSettled == SelectSeq(pulseBuffer, LAMBDA q : add[q] # "saving")

\* getBufferedPulses(): globalState.get(PULSE_STORAGE_KEY, [])
getBufferedPulses == pulseBuffer

\* savePulses(pulses): globalState.update(PULSE_STORAGE_KEY, pulses);
\* the stored value after the call, given whether the store rejected it
savePulses(pulses, rejected) == IF rejected THEN pulseBuffer ELSE pulses

\* pulses.push(pulse) in addPulse
PushPulse(pulses, pulse) == Append(pulses, pulse)

\* the value sync() writes back on failure: savePulses(pulsesToSync)
Rebuffer(pulsesToSync, current) == pulsesToSync

\* a check for 200 instead of response.ok
ResponseIs200(status) == status = 200

\* response.ok
ResponseOk(status) == status >= 200 /\ status <= 299

\* a sync() call that is not running; result is what it settled with: "true",
\* "false", "rejected" when it threw, "none" when it has not been made yet
Settled(r) == [pc |-> "idle", batch |-> <<>>, result |-> r, posted |-> FALSE,
               status |-> 0, added |-> <<>>, err |-> FALSE]

\* sync() call s settles with r
Settle(s, r) == sync' = [sync EXCEPT ![s] = Settled(r)]

\* another call of addPulse or sync() is within the bound
MayCall ==
    Cardinality({p \in Pulses : add[p] # "none"})
      + Cardinality({s \in SyncIds : sync[s] # Settled("none")}) < MaxCalls

\* the next pulse the generator creates (event ids are fresh)
NextPulse == CHOOSE p \in Pulses : add[p] = "none" /\ \A q \in Pulses : add[q] = "none" => p <= q

\* -------------------------------------------------------------------- Init
InitCore ==
    /\ pulseBuffer = <<>>
    /\ apiKey = FALSE
    /\ userInfo = FALSE
    /\ isAuthenticated = FALSE
    /\ isRunning = FALSE
    /\ syncInterval = FALSE
    /\ pulseInterval = FALSE
    /\ initialSync = 0
    /\ sync = [s \in SyncIds |-> Settled("none")]
    /\ add = [p \in Pulses |-> "none"]
    /\ received = {}
    /\ pulseQueue = <<>>
    /\ qadd = [p \in Pulses |-> [pc |-> "none", currentQueue |-> <<>>]]
    /\ qsync = [s \in SyncIds |-> [pc |-> "idle", pulses |-> <<>>]]
    /\ tsRunning = FALSE
    /\ tsTimers = FALSE
    /\ tsStartPc = "idle"

\* the classifier as createActivityClassifier() leaves it, in a workspace
\* that has a name; no pulse generated yet
InitGenerator ==
    /\ now = 0
    /\ workspaceName = "timefly"
    /\ activeActivities = <<>>
    /\ lastEventTimestamp = 0
    /\ emitted = <<>>

\* no window computed
InitScale ==
    /\ rawDurations = <<>>
    /\ scaled = <<>>

\* activity names that the detectors record
RealNames == {"coding", "reading"}
TrackerNames == RealNames \cup {"idle", "inactive"}

\* a Map without an entry for the name
NoTime == -1
NoTimes == [n \in TrackerNames |-> NoTime]

\* ActivityMetadata with one numeric field and one string field; chars 0 and
\* event "none" stand for a field that is not there
Meta(chars, event) == [chars |-> chars, event |-> event]
EmptyMeta == Meta(0, "none")
NoMetas == [n \in TrackerNames |-> EmptyMeta]

\* the state startTracking() leaves: idle since the start of the window
InitTracker ==
    /\ trackerRunning = TRUE
    /\ lastUserActivity = 0
    /\ activeNames = <<"idle">>
    /\ firstSeen = [NoTimes EXCEPT !["idle"] = 0]
    /\ lastSeen = [NoTimes EXCEPT !["idle"] = 0]
    /\ lastTrigger = NoTimes
    /\ windowStart = 0
    /\ events = <<>>
    /\ ticks = 0
    /\ signals = 0
    /\ activityMeta = NoMetas
    /\ dailyProductiveMs = 0

\* activity names that the collectors record
StateNames == {"coding", "reading", "debugging"}

\* state.ts as loaded, and a manager that has not been started
InitState ==
    /\ currentActivities = {"inactive"}
    /\ idleTimer = FALSE
    /\ inactiveTimer = FALSE
    /\ isTracking = FALSE
    /\ pulseCheck = [pc |-> "idle", activities |-> <<>>]
    /\ created = <<>>
    /\ returned = "none"

\* createDebounce(fn, ms) as it returns: no timer, no call made yet
InitDebounce ==
    /\ dbPending = {}
    /\ dbTimer = <<>>
    /\ dbInvoked = <<>>
    /\ dbCalls = <<>>

\* state.ts as loaded: no timeout is set
InitTimers ==
    /\ stPending = {}
    /\ idleHandle = NoTime
    /\ inactiveHandle = NoTime
    /\ lastRecordAt = NoTime
    /\ initAt = NoTime
    /\ enteredIdleAt = NoTime

\* a day without a stored DailySummary
NoSummary == [date |-> NoTime, productiveTimeMs |-> 0]

\* the wall clock on the day the extension host starts; nothing stored yet
InitSummary ==
    /\ utcDay = 0
    /\ dailySummary = NoSummary

InitRest == InitDebounce /\ InitTimers /\ InitSummary

InitTracking == InitGenerator /\ InitScale /\ InitTracker /\ InitState /\ InitRest

InitCommon == InitCore /\ InitTracking

Init == InitCommon /\ faults = FALSE

InitFaults == InitCommon /\ faults = TRUE


\* ------------------------------------------------- credentials (StorageService)
\* storeApiKey(apiKey): secrets.store(API_KEY, apiKey)
StoreApiKey ==
    /\ ~apiKey
    /\ apiKey' = TRUE
    /\ UNCHANGED <<userInfo, isAuthenticated, mgrVars, outboxVars, faults, trackVars, queueVars>>

\* storeUserInfo(userInfo): update(USER_INFO, userInfo) and
\* update(IS_AUTHENTICATED, true)
StoreUserInfo ==
    /\ ~userInfo
    /\ userInfo' = TRUE
    /\ isAuthenticated' = TRUE
    /\ UNCHANGED <<apiKey, mgrVars, outboxVars, faults, trackVars, queueVars>>

\* clearAllData(): deleteApiKey(), update(USER_INFO, undefined) and
\* update(IS_AUTHENTICATED, false)
ClearAllData ==
    /\ apiKey \/ userInfo \/ isAuthenticated
    /\ apiKey' = FALSE
    /\ userInfo' = FALSE
    /\ isAuthenticated' = FALSE
    /\ UNCHANGED <<mgrVars, outboxVars, faults, trackVars, queueVars>>

\* ------------------------------------------------------ sync() of the outbox
\* The next sync() call: the lowest one that has not been made yet
FreeSlot(s) ==
    /\ sync[s] = Settled("none")
    /\ \A t \in SyncIds : t < s => sync[t] # Settled("none")
    /\ MayCall

\* sync() from its call to the first await: getAndClearPulses() reads the
\* buffer and calls savePulses([]) in one synchronous stretch
SyncCall(s, rejected) ==
    /\ sync' = [sync EXCEPT ![s] = [pc |-> "clearing", batch |-> getBufferedPulses,
                                    result |-> "none", posted |-> FALSE, status |-> 0, added |-> <<>>, err |-> rejected]]
    /\ pulseBuffer' = savePulses(<<>>, rejected)

\* sync() after `await savePulses([])`: throws out of sync() when the write was
\* rejected, returns true on an empty batch, else awaits getApiKey()
SyncCleared(s) ==
    /\ sync[s].pc = "clearing"
    /\ IF sync[s].err THEN Settle(s, "rejected")
       ELSE IF Len(sync[s].batch) = 0 THEN Settle(s, "true")
       ELSE sync' = [sync EXCEPT ![s].pc = "getKey"]
    /\ UNCHANGED <<pulseBuffer, add, received, authVars, mgrVars, faults, trackVars, queueVars>>

\* sync() after `await getApiKey()`: without a key it re-buffers and awaits the
\* write, with a key it issues the POST and awaits the response
SyncGotKey(s) ==
    /\ sync[s].pc = "getKey"
    /\ IF ~apiKey
         THEN \E rejected \in WriteOutcomes :
                /\ pulseBuffer' = savePulses(Rebuffer(sync[s].batch, pulseBuffer), rejected)
                /\ sync' = [sync EXCEPT ![s].pc = "rebufTry", ![s].err = rejected]
         ELSE /\ sync' = [sync EXCEPT ![s].pc = "fetch", ![s].posted = TRUE]
              /\ UNCHANGED pulseBuffer
    /\ UNCHANGED <<add, received, authVars, mgrVars, faults, trackVars, queueVars>>

\* `await fetch(...)` resolves: the collector has answered with some status
\* (a 2xx answer acknowledges the batch); response.ok returns true, any other
\* status is logged and sync() goes on to `await response.text()`
SyncResponse(s) ==
    /\ sync[s].pc = "fetch"
    /\ \E status \in Statuses :
         /\ received' = IF status \in 200..299 THEN received \cup Range(sync[s].batch)
                                                ELSE received
         /\ IF ResponseOk(status)
              THEN Settle(s, "true")
              ELSE sync' = [sync EXCEPT ![s].pc = "text", ![s].status = status]
    /\ UNCHANGED <<pulseBuffer, add, authVars, mgrVars, faults, trackVars, queueVars>>

\* fetch() rejects (timeout, connection error): the catch block re-buffers
SyncTransportError(s) ==
    /\ sync[s].pc = "fetch"
    /\ \E rejected \in WriteOutcomes :
         /\ pulseBuffer' = savePulses(Rebuffer(sync[s].batch, pulseBuffer), rejected)
         /\ sync' = [sync EXCEPT ![s].pc = "rebufCatch", ![s].err = rejected]
    /\ UNCHANGED <<add, received, authVars, mgrVars, faults, trackVars, queueVars>>

\* `await response.text()` settles: the body is logged and the batch is
\* re-buffered in the try block, or the read threw and the catch block, which
\* has no response in scope, does it
SyncText(s) ==
    /\ sync[s].pc = "text"
    /\ \E bodyRead \in BOOLEAN, rejected \in WriteOutcomes :
         /\ pulseBuffer' = savePulses(Rebuffer(sync[s].batch, pulseBuffer), rejected)
         /\ sync' = [sync EXCEPT ![s].pc = IF bodyRead THEN "rebufTry" ELSE "rebufCatch",
                                 ![s].status = IF bodyRead THEN @ ELSE 0,
                                 ![s].err = rejected]
    /\ UNCHANGED <<add, received, authVars, mgrVars, faults, trackVars, queueVars>>

\* `await savePulses(pulsesToSync)` inside the try block settles: return false,
\* or the rejection is caught and the catch block writes the batch again
SyncRebufTry(s) ==
    /\ sync[s].pc = "rebufTry"
    /\ IF sync[s].err
         THEN \E rejected \in WriteOutcomes :
                /\ pulseBuffer' = savePulses(Rebuffer(sync[s].batch, pulseBuffer), rejected)
                /\ sync' = [sync EXCEPT ![s].pc = "rebufCatch", ![s].err = rejected]
         ELSE /\ Settle(s, "false")
              /\ UNCHANGED pulseBuffer
    /\ UNCHANGED <<add, received, authVars, mgrVars, faults, trackVars, queueVars>>

\* `await savePulses(pulsesToSync)` inside the catch block settles: return
\* false, or the rejection leaves sync() rejected
SyncRebufCatch(s) ==
    /\ sync[s].pc = "rebufCatch"
    /\ Settle(s, IF sync[s].err THEN "rejected" ELSE "false")
    /\ UNCHANGED <<pulseBuffer, add, received, authVars, mgrVars, faults, trackVars, queueVars>>

\* ------------------------------------------------ addPulse() of the outbox
\* generatePulse() on a pulse-interval tick with active activities: needs the
\* user info, builds the pulse and calls addPulse(pulse), which reads the
\* buffer, pushes and calls savePulses in one synchronous stretch.  Every
\* sync() in flight sees the pulse as added since its snapshot.
GeneratePulse(p) ==
    /\ pulseInterval
    /\ userInfo
    /\ add[p] = "none"
    /\ MayCall
    /\ p = NextPulse
    /\ \E rejected \in WriteOutcomes :
         /\ pulseBuffer' = savePulses(PushPulse(getBufferedPulses, p), rejected)
         /\ add' = [add EXCEPT ![p] = IF rejected THEN "savingErr" ELSE "saving"]
         /\ sync' = [s \in SyncIds |->
                       IF InFlight(s) /\ ~rejected
                         THEN [sync[s] EXCEPT !.added = Append(@, p)]
                         ELSE sync[s]]
    /\ UNCHANGED <<received, authVars, mgrVars, faults, trackVars, queueVars>>

\* addPulse() after `await savePulses(pulses)`, for a pulse without a productive
\* activity: a rejection is caught and logged; either way the promise of
\* addPulse resolves
AddPulseSaved(p) ==
    /\ add[p] \in {"saving", "savingErr"}
    /\ add' = [add EXCEPT ![p] = "done"]
    /\ UNCHANGED <<pulseBuffer, sync, received, authVars, mgrVars, faults, trackVars, queueVars>>

\* ------------------------------------------------- createTrackingManager
\* a start() without the test of isAuthenticated()
StartUnauthenticated ==
    /\ ~isRunning
    /\ initialSync < MaxTimers
    /\ isRunning' = TRUE
    /\ pulseInterval' = TRUE
    /\ syncInterval' = TRUE
    /\ initialSync' = initialSync + 1
    /\ UNCHANGED <<outboxVars, authVars, faults, trackVars, queueVars>>

\* start(): returns early when running or not authenticated; else starts the
\* pulse generator, the sync interval and the delayed initial sync
Start ==
    /\ ~isRunning
    /\ isAuthenticated
    /\ initialSync < MaxTimers
    /\ isRunning' = TRUE
    /\ pulseInterval' = TRUE
    /\ syncInterval' = TRUE
    /\ initialSync' = initialSync + 1
    /\ UNCHANGED <<outboxVars, authVars, faults, trackVars, queueVars>>

\* stop(): returns early when not running; else stops the pulse generator,
\* clears the sync interval and calls trackingStorage.sync()
Stop(s) ==
    /\ isRunning
    /\ FreeSlot(s)
    /\ isRunning' = FALSE
    /\ pulseInterval' = FALSE
    /\ syncInterval' = FALSE
    /\ \E rejected \in WriteOutcomes : SyncCall(s, rejected)
    /\ UNCHANGED <<initialSync, add, received, authVars, faults, trackVars, queueVars>>

\* the sync interval fires: trackingStorage.sync()
SyncIntervalTick(s) ==
    /\ syncInterval
    /\ FreeSlot(s)
    /\ \E rejected \in WriteOutcomes : SyncCall(s, rejected)
    /\ UNCHANGED <<add, received, authVars, mgrVars, faults, trackVars, queueVars>>

\* the 5 s timeout set by start() fires: trackingStorage.sync()
InitialSyncTimeout(s) ==
    /\ initialSync > 0
    /\ FreeSlot(s)
    /\ initialSync' = initialSync - 1
    /\ \E rejected \in WriteOutcomes : SyncCall(s, rejected)
    /\ UNCHANGED <<isRunning, syncInterval, pulseInterval, add, received, authVars,
                   faults, trackVars, queueVars>>

\* --------------------------------------------------------- specifications
Next ==
    \/ StoreApiKey
    \/ StoreUserInfo
    \/ ClearAllData
    \/ Start
    \/ \E s \in SyncIds : Stop(s)
    \/ \E s \in SyncIds : SyncIntervalTick(s)
    \/ \E s \in SyncIds : InitialSyncTimeout(s)
    \/ \E p \in Pulses : GeneratePulse(p)
    \/ \E p \in Pulses : AddPulseSaved(p)
    \/ \E s \in SyncIds : SyncCleared(s)
    \/ \E s \in SyncIds : SyncGotKey(s)
    \/ \E s \in SyncIds : SyncResponse(s)
    \/ \E s \in SyncIds : SyncTransportError(s)
    \/ \E s \in SyncIds : SyncText(s)
    \/ \E s \in SyncIds : SyncRebufTry(s)
    \/ \E s \in SyncIds : SyncRebufCatch(s)

\* the outbox with a persisted store that accepts every write
Spec == Init /\ [][Next]_vars

\* the outbox with a persisted store that may reject writes
SpecFaults == InitFaults /\ [][Next]_vars

TypeOK ==
    /\ pulseBuffer \in Seq(Pulses)
    /\ \A s \in SyncIds : sync[s].result \in {"none", "true", "false", "rejected"}


\* ------------------------------------ StorageService pulse queue (PULSE_QUEUE)
\* getPulses(): globalState.get(PULSE_QUEUE, [])
getPulses == pulseQueue

\* globalState.update(PULSE_QUEUE, value): the stored value after the call
updateQueue(value, rejected) == IF rejected THEN pulseQueue ELSE value

\* another call of StorageService.addPulse or handleSync is within the bound
MayCallQueue ==
    Cardinality({p \in Pulses : qadd[p].pc # "none"})
      + Cardinality({s \in SyncIds : qsync[s].pc # "idle"}) < MaxCalls

\* handlePulse() on a pulse-interval tick with activities: buildPulse() needs
\* an authenticated user; then storage.addPulse(pulse) runs up to
\* `await this.getPulses()`, which has read the queue
HandlePulse(p) ==
    /\ tsTimers
    /\ isAuthenticated /\ userInfo
    /\ qadd[p].pc = "none"
    /\ MayCallQueue
    /\ p = CHOOSE q \in Pulses : qadd[q].pc = "none" /\ \A r \in Pulses : qadd[r].pc = "none" => q <= r
    /\ qadd' = [qadd EXCEPT ![p] = [pc |-> "reading", currentQueue |-> getPulses]]
    /\ UNCHANGED <<pulseQueue, qsync, tsRunning, tsTimers, tsStartPc, authVars, mgrVars,
                   outboxVars, faults, trackVars>>

\* StorageService.addPulse after the read: currentQueue.push(pulse) and
\* globalState.update(PULSE_QUEUE, currentQueue)
QueueAddWrite(p) ==
    /\ qadd[p].pc = "reading"
    /\ \E rejected \in WriteOutcomes :
         /\ pulseQueue' = updateQueue(Append(qadd[p].currentQueue, p), rejected)
         /\ qadd' = [qadd EXCEPT ![p] = [pc |-> IF rejected THEN "writingErr" ELSE "writing",
                                         currentQueue |-> <<>>]]
    /\ UNCHANGED <<qsync, tsRunning, tsTimers, tsStartPc, authVars, mgrVars, outboxVars, faults, trackVars>>

\* StorageService.addPulse after the update settles: a rejection is caught and
\* logged; either way the promise resolves
QueueAddSaved(p) ==
    /\ qadd[p].pc \in {"writing", "writingErr"}
    /\ qadd' = [qadd EXCEPT ![p].pc = "done"]
    /\ UNCHANGED <<pulseQueue, qsync, tsRunning, tsTimers, tsStartPc, authVars, mgrVars,
                   outboxVars, faults, trackVars>>

\* ------------------------------------------------------------ TrackingService
HandleSyncFree(s) ==
    /\ qsync[s].pc = "idle"
    /\ \A t \in SyncIds : t < s => qsync[t].pc # "idle"
    /\ MayCallQueue

\* handleSync() up to `await this.storage.getPulses()`, which has read the queue
HandleSyncCall(s) ==
    qsync' = [qsync EXCEPT ![s] = [pc |-> "read", pulses |-> getPulses]]

\* handleSync() after the read: returns on an empty queue, else calls
\* clearPulses(), i.e. update(PULSE_QUEUE, undefined), without sending anything
HandleSyncClear(s) ==
    /\ qsync[s].pc = "read"
    /\ IF Len(qsync[s].pulses) = 0
         THEN UNCHANGED pulseQueue
         ELSE \E rejected \in WriteOutcomes : pulseQueue' = updateQueue(<<>>, rejected)
    /\ qsync' = [qsync EXCEPT ![s] = [pc |-> "idle", pulses |-> <<>>]]
    /\ UNCHANGED <<qadd, tsRunning, tsTimers, tsStartPc, authVars, mgrVars, outboxVars, faults, trackVars>>

\* updateAuthenticationStatus(true) -> start(), up to `await prepareBaseMetadata()`
ServiceStartBegin ==
    /\ ~tsRunning
    /\ tsStartPc = "idle"
    /\ tsRunning' = TRUE
    /\ tsStartPc' = "preparing"
    /\ UNCHANGED <<pulseQueue, qadd, qsync, tsTimers, authVars, mgrVars, outboxVars, faults, trackVars>>

\* start() after the await: sets both intervals and calls handleSync()
ServiceStartEnd(s) ==
    /\ tsStartPc = "preparing"
    /\ HandleSyncFree(s)
    /\ tsStartPc' = "idle"
    /\ tsTimers' = TRUE
    /\ HandleSyncCall(s)
    /\ UNCHANGED <<pulseQueue, qadd, tsRunning, authVars, mgrVars, outboxVars, faults, trackVars>>

\* updateAuthenticationStatus(false) -> stop(): clears both intervals and
\* calls handleSync()
ServiceStop(s) ==
    /\ tsRunning
    /\ HandleSyncFree(s)
    /\ tsRunning' = FALSE
    /\ tsTimers' = FALSE
    /\ HandleSyncCall(s)
    /\ UNCHANGED <<pulseQueue, qadd, tsStartPc, authVars, mgrVars, outboxVars, faults, trackVars>>

\* the sync interval of the service fires: handleSync()
ServiceSyncTick(s) ==
    /\ tsTimers
    /\ HandleSyncFree(s)
    /\ HandleSyncCall(s)
    /\ UNCHANGED <<pulseQueue, qadd, tsRunning, tsTimers, tsStartPc, authVars, mgrVars,
                   outboxVars, faults, trackVars>>

\* clearAllData() of the StorageService with a pulse queue: as above, then
\* clearPulses(), i.e. update(PULSE_QUEUE, undefined)
QueueClearAllData ==
    /\ apiKey \/ userInfo \/ isAuthenticated \/ Len(pulseQueue) > 0
    /\ apiKey' = FALSE
    /\ userInfo' = FALSE
    /\ isAuthenticated' = FALSE
    /\ \E rejected \in WriteOutcomes : pulseQueue' = updateQueue(<<>>, rejected)
    /\ UNCHANGED <<qadd, qsync, tsRunning, tsTimers, tsStartPc, mgrVars, outboxVars, faults, trackVars>>

NextQueue ==
    \/ StoreApiKey
    \/ StoreUserInfo
    \/ QueueClearAllData
    \/ ServiceStartBegin
    \/ \E s \in SyncIds : ServiceStartEnd(s)
    \/ \E s \in SyncIds : ServiceStop(s)
    \/ \E s \in SyncIds : ServiceSyncTick(s)
    \/ \E s \in SyncIds : HandleSyncClear(s)
    \/ \E p \in Pulses : HandlePulse(p)
    \/ \E p \in Pulses : QueueAddWrite(p)
    \/ \E p \in Pulses : QueueAddSaved(p)

\* the TrackingService generation of the code, store accepting every write
SpecQueue == Init /\ [][NextQueue]_vars


\* ----------------------------------------- pulse manager (storePulse, syncPulses)
\* storePulse(pulse): getPulses(), [...existingPulses, pulse] and
\* storePulses(newPulses) in one synchronous stretch, then the await
StorePulse(p) ==
    /\ qadd[p].pc = "none"
    /\ MayCallQueue
    /\ p = CHOOSE q \in Pulses : qadd[q].pc = "none" /\ \A r \in Pulses : qadd[r].pc = "none" => q <= r
    /\ \E rejected \in WriteOutcomes :
         /\ pulseQueue' = updateQueue(Append(getPulses, p), rejected)
         /\ qadd' = [qadd EXCEPT ![p] = [pc |-> "storing", currentQueue |-> <<>>]]
    /\ UNCHANGED <<qsync, tsRunning, tsTimers, tsStartPc, authVars, mgrVars, outboxVars, faults, trackVars>>

\* `await storage.storePulses(newPulses)` settles
StorePulseSaved(p) ==
    /\ qadd[p].pc = "storing"
    /\ qadd' = [qadd EXCEPT ![p].pc = "done"]
    /\ UNCHANGED <<pulseQueue, qsync, tsRunning, tsTimers, tsStartPc, authVars, mgrVars,
                   outboxVars, faults, trackVars>>

\* syncPulses(): reads the stored pulses, returns when there are none, else
\* posts them and awaits the answer
SyncPulsesCall(s) ==
    /\ HandleSyncFree(s)
    /\ qsync' = [qsync EXCEPT ![s] = IF Len(getPulses) = 0
                                       THEN [pc |-> "returned", pulses |-> <<>>]
                                       ELSE [pc |-> "post", pulses |-> getPulses]]
    /\ UNCHANGED <<pulseQueue, qadd, tsRunning, tsTimers, tsStartPc, authVars, mgrVars,
                   outboxVars, faults, trackVars>>

\* `await api.post(...)` resolves: clearPulses(), i.e. update(PULSE_QUEUE,
\* undefined), and the await of it
SyncPulsesPosted(s) ==
    /\ qsync[s].pc = "post"
    /\ \E rejected \in WriteOutcomes : pulseQueue' = updateQueue(<<>>, rejected)
    /\ qsync' = [qsync EXCEPT ![s].pc = "clearing"]
    /\ UNCHANGED <<qadd, tsRunning, tsTimers, tsStartPc, authVars, mgrVars, outboxVars, faults, trackVars>>

\* `await api.post(...)` rejects: the catch block logs and keeps the pulses
SyncPulsesFailed(s) ==
    /\ qsync[s].pc = "post"
    /\ qsync' = [qsync EXCEPT ![s] = [pc |-> "returned", pulses |-> <<>>]]
    /\ UNCHANGED <<pulseQueue, qadd, tsRunning, tsTimers, tsStartPc, authVars, mgrVars,
                   outboxVars, faults, trackVars>>

\* `await storage.clearPulses()` settles
SyncPulsesCleared(s) ==
    /\ qsync[s].pc = "clearing"
    /\ qsync' = [qsync EXCEPT ![s] = [pc |-> "returned", pulses |-> <<>>]]
    /\ UNCHANGED <<pulseQueue, qadd, tsRunning, tsTimers, tsStartPc, authVars, mgrVars,
                   outboxVars, faults, trackVars>>

NextPulses ==
    \/ \E p \in Pulses : StorePulse(p)
    \/ \E p \in Pulses : StorePulseSaved(p)
    \/ \E s \in SyncIds : SyncPulsesCall(s)
    \/ \E s \in SyncIds : SyncPulsesPosted(s)
    \/ \E s \in SyncIds : SyncPulsesFailed(s)
    \/ \E s \in SyncIds : SyncPulsesCleared(s)

\* the pulse manager: storePulse and syncPulses calls in any interleaving
SpecPulses == Init /\ [][NextPulses]_vars

\* ---------------------------------------------------- liveness specification
\* The timer callbacks drop the promise of sync(): once the call has settled
\* nothing refers to it any more, and its number stands for a later call.
SyncForget(s) ==
    /\ sync[s].pc = "idle"
    /\ sync[s].result # "none"
    /\ Settle(s, "none")
    /\ UNCHANGED <<pulseBuffer, add, received, authVars, mgrVars, faults, trackVars, queueVars>>

\* The manager of an authenticated user has been started and is never stopped:
\* the state after storeUserInfo() and start().
InitLive ==
    /\ pulseBuffer = <<>>
    /\ apiKey = FALSE
    /\ userInfo = TRUE
    /\ isAuthenticated = TRUE
    /\ isRunning = TRUE
    /\ syncInterval = TRUE
    /\ pulseInterval = TRUE
    /\ initialSync = 1
    /\ sync = [s \in SyncIds |-> Settled("none")]
    /\ add = [p \in Pulses |-> "none"]
    /\ received = {}
    /\ faults = FALSE
    /\ pulseQueue = <<>>
    /\ qadd = [p \in Pulses |-> [pc |-> "none", currentQueue |-> <<>>]]
    /\ qsync = [s \in SyncIds |-> [pc |-> "idle", pulses |-> <<>>]]
    /\ tsRunning = FALSE
    /\ tsTimers = FALSE
    /\ tsStartPc = "idle"
    /\ InitTracking

NextLive ==
    \/ StoreApiKey
    \/ \E s \in SyncIds : SyncIntervalTick(s)
    \/ \E s \in SyncIds : InitialSyncTimeout(s)
    \/ \E p \in Pulses : GeneratePulse(p)
    \/ \E p \in Pulses : AddPulseSaved(p)
    \/ \E s \in SyncIds : SyncCleared(s)
    \/ \E s \in SyncIds : SyncGotKey(s)
    \/ \E s \in SyncIds : SyncResponse(s)
    \/ \E s \in SyncIds : SyncTransportError(s)
    \/ \E s \in SyncIds : SyncText(s)
    \/ \E s \in SyncIds : SyncRebufTry(s)
    \/ \E s \in SyncIds : SyncRebufCatch(s)
    \/ \E s \in SyncIds : SyncForget(s)

\* the collector answers the POST of sync() call s with a 2xx status
SyncAnswered2xx(s) ==
    /\ SyncResponse(s)
    /\ Range(sync[s].batch) \subseteq received'

\* Every awaited promise settles and every timer keeps firing; the credential
\* is eventually stored; a collector that is asked again and again eventually
\* answers 2xx.
FairnessLive ==
    /\ WF_vars(StoreApiKey)
    /\ SF_vars(\E s \in SyncIds : SyncIntervalTick(s))
    /\ WF_vars(\E s \in SyncIds : InitialSyncTimeout(s))
    /\ \A p \in Pulses : WF_vars(AddPulseSaved(p))
    /\ \A s \in SyncIds :
         /\ WF_vars(SyncCleared(s))
         /\ WF_vars(SyncGotKey(s))
         /\ WF_vars(SyncResponse(s) \/ SyncTransportError(s))
         /\ SF_vars(SyncAnswered2xx(s))
         /\ WF_vars(SyncText(s))
         /\ WF_vars(SyncRebufTry(s))
         /\ WF_vars(SyncRebufCatch(s))
         /\ WF_vars(SyncForget(s))

SpecLive == InitLive /\ [][NextLive]_vars /\ FairnessLive

\* ------------------------------------------------------------------ claims
\* sync() call s settles in this step with value r
SettlesWith(s, r) ==
    /\ InFlight(s)
    /\ sync'[s].pc = "idle"
    /\ sync'[s].result = r

\* no other sync() call has run since the start: call s never overlapped
\* with another one
NeverOverlapped(s) ==
    \A t \in SyncIds : t # s => sync[t] = Settled("none")

\* C1: when sync() settles with false, the persisted buffer contains every
\* pulse of its snapshot B and every pulse A that addPulse added while it ran,
\* so it holds at least |B| + |A| pulses (stated for a sync() that did not
\* overlap with another sync() call).
C1_FailedSyncKeepsBufferedAndAdded ==
    [][\A s \in SyncIds :
         (SettlesWith(s, "false") /\ NeverOverlapped(s)) =>
           /\ Range(sync[s].batch) \cup Range(sync[s].added) \subseteq Range(pulseBuffer')
           /\ Len(pulseBuffer') >= Len(sync[s].batch) + Len(sync[s].added)]_vars

\* C2: the batch of a running sync() never changes after the snapshot, and a
\* pulse added while the sync() ran is not in the batch and is in the persisted
\* buffer when the sync() settles, with true or with false (stated for a
\* sync() that did not overlap with another sync() call).
C2_AddedPulsesOutliveSync ==
    [][\A s \in SyncIds :
         /\ (InFlight(s) /\ sync'[s].pc # "idle") => sync'[s].batch = sync[s].batch
         /\ ((SettlesWith(s, "true") \/ SettlesWith(s, "false")) /\ NeverOverlapped(s)) =>
              \A p \in Range(sync[s].added) :
                 /\ p \notin Range(sync[s].batch)
                 /\ p \in Range(pulseBuffer')]_vars

\* C3: a pulse that was written to the queue stays in the queue or in the
\* local copy of a running handleSync until the collector has acknowledged it.
C3_PulseLeavesOnlyWhenAcknowledged ==
    \A p \in Pulses :
       qadd[p].pc \in {"writing", "done"} =>
          \/ p \in Range(pulseQueue)
          \/ \E s \in SyncIds : p \in Range(qsync[s].pulses)
          \/ p \in received

\* C4: at most one sync() call is in flight at any time.
C4_SingleSyncInFlight ==
    Cardinality({s \in SyncIds : InFlight(s)}) <= 1

\* C5: every pulse whose addPulse call completed is eventually part of a batch
\* that the collector acknowledges with 2xx.
C5_AtLeastOnceDelivery ==
    \A p \in Pulses : (add[p] = "done") ~> (p \in received)

\* C6: a sync() that finds no API key settles with false, has posted nothing
\* and leaves the buffer equal to its batch followed by the pulses added since
\* the snapshot (stated for a sync() that did not overlap with another one).
C6_NoKeyRebuffersBatchThenAdded ==
    [][\A s \in SyncIds :
         (sync[s].pc = "rebufTry" /\ ~sync[s].posted /\ sync'[s].pc = "idle"
            /\ NeverOverlapped(s)) =>
           /\ sync'[s].result = "false"
           /\ pulseBuffer' = sync[s].batch \o sync[s].added]_vars

\* the POST of sync() call s has been answered with a 2xx status: the answer
\* arrives in this step and acknowledges the batch, or it arrived before and
\* the call has kept its status
Answered2xx(s) ==
    /\ sync[s].posted
    /\ \/ sync[s].pc = "fetch" /\ Range(sync[s].batch) \subseteq received'
       \/ sync[s].status \in 200..299

C8_FailedSyncOrder ==
    [][\A s \in SyncIds :
         (SettlesWith(s, "false") /\ NeverOverlapped(s)) =>
            pulseBuffer' = sync[s].batch \o sync[s].added]_vars

\* C9: once addPulse(p) has completed (it never reports an error), p is in the
\* persisted buffer, or already in the snapshot of a sync(), or acknowledged.
C9_CompletedAddIsPersisted ==
    \A p \in Pulses :
       add[p] = "done" =>
          \/ p \in Range(pulseBuffer)
          \/ \E s \in SyncIds : p \in Range(sync[s].batch)
          \/ p \in received

\* the pulses handed to addPulse so far, in the order of the calls
AddedPulses ==
    [i \in 1..Cardinality({p \in Pulses : add[p] # "none"}) |-> i]

\* C10: as long as only addPulse calls have touched the buffer, however their
\* awaited writes overlap, the buffer holds every added pulse exactly once.
C10_NoLostUpdate ==
    (\A s \in SyncIds : sync[s].pc = "idle" /\ sync[s].result = "none") =>
       pulseBuffer = AddedPulses

\* two addPulse calls are both awaiting their write and both pulses are stored
C10_Witness ==
    /\ \A s \in SyncIds : sync[s].pc = "idle" /\ sync[s].result = "none"
    /\ \E p, q \in Pulses : p # q /\ add[p] = "saving" /\ add[q] = "saving"
    /\ Len(pulseBuffer) = 2

\* C11: once stop() has run (the manager is not running), no timer started by
\* start() fires any more: no pulse-generation tick, no sync-interval tick and
\* no delayed initial sync.
C11_NoTimerFiresAfterStop ==
    [][~isRunning =>
         /\ \A s \in SyncIds : ~InitialSyncTimeout(s) /\ ~SyncIntervalTick(s)
         /\ \A p \in Pulses : ~GeneratePulse(p)]_vars

\* C12: no sync() call settles by rejecting, also when the persisted store
\* rejects the write of the snapshot-and-clear or of the re-buffering.
C12_SyncNeverRejects ==
    \A s \in SyncIds : sync[s].result # "rejected"


\* ------------------------- activity classifier and pulse generator (pulse.ts)
\* the raw events of tracking/types.ts that the collectors report
Event(type, action) == [type |-> type, action |-> action]
RawEvents ==
    {Event("document", a) : a \in {"change", "selection", "scroll"}}
      \cup {Event("file", a) : a \in {"switch", "create", "delete"}}
      \cup {Event("debug", a) : a \in {"start", "stop"}}
      \cup {Event("terminal", a) : a \in {"open", "write"}}
      \cup {Event("ai", "interaction")}
      \cup {Event("system", a) : a \in {"start", "stop"}}

\* the events of the behaviours of the pulse generator: one that is classified
\* as coding, one as reading, one that is not classified
GenEvents ==
    {Event("document", "change"), Event("document", "selection"), Event("system", "start")}

\* a classification that takes every event for coding
EventActivityCoding(event) == "coding"

\* the switch of processEvent: the activity name of a raw event, "null" when
\* it determines none
EventActivityName(event) ==
    CASE event.type = "document" ->
           IF event.action = "change" THEN "coding"
           ELSE IF event.action \in {"selection", "scroll"} THEN "reading"
           ELSE "null"
      [] event.type = "file" ->
           IF event.action = "switch" THEN "reading" ELSE "coding"
      [] event.type = "debug" -> "debugging"
      [] event.type = "terminal" -> "terminal_usage"
      [] event.type = "ai" -> "ai_usage"
      [] OTHER -> "null"

\* the clock moves in steps of five windows, which puts instants below,
\* between and beyond the idle and inactive thresholds
ClockStep == 5 * PULSE_GENERATION_INTERVAL

\* an updateActivity that starts a new entry for every event
updateActivityPush(acts, name, t) ==
    Append(acts, [name |-> name, startedAt |-> t, lastEventAt |-> t])

\* updateActivity(name) at time t: the entry found by name is refreshed, else a
\* new entry is pushed
updateActivity(acts, name, t) ==
    IF \E i \in DOMAIN acts : acts[i].name = name
      THEN LET k == CHOOSE i \in DOMAIN acts :
                      /\ acts[i].name = name
                      /\ \A j \in DOMAIN acts : acts[j].name = name => i <= j
           IN  [acts EXCEPT ![k].lastEventAt = t]
      ELSE Append(acts, [name |-> name, startedAt |-> t, lastEventAt |-> t])

\* a checkExpiration that drops nothing
checkExpirationKeep(acts, t) == acts

\* checkExpiration() at time t: what it leaves in activeActivities
checkExpiration(acts, t) ==
    SelectSeq(acts, LAMBDA a : t - a.lastEventAt <= ACTIVITY_EXPIRATION_THRESHOLD)

\* the entry getCurrentActivities() makes up for a silent classifier
Synthesized(name, t) == <<[name |-> name, startedAt |-> t, lastEventAt |-> t]>>

\* getCurrentActivities() at time t: its return value
getCurrentActivities(acts, last, t) ==
    LET live == checkExpiration(acts, t)
    IN  IF Len(live) = 0 /\ t - last > INACTIVE_THRESHOLD + IDLE_THRESHOLD
          THEN Synthesized("inactive", t)
          ELSE IF Len(live) = 0 /\ t - last > IDLE_THRESHOLD
                 THEN Synthesized("idle", t)
                 ELSE live

\* vscode.workspace.name ?? 'unknown'
ProjectId(name) == IF name = "undefined" THEN "unknown" ELSE name

\* the Pulse that generatePulse builds from the current activities
BuildPulse(current) ==
    [user_id |-> "uuid",
     project_id |-> ProjectId(workspaceName),
     activities |-> [i \in DOMAIN current |->
                       [name |-> current[i].name,
                        duration_ms |-> PULSE_GENERATION_INTERVAL]]]

\* the classifier of a fresh extension host, in a workspace with or without
\* a name
InitGen ==
    /\ InitCore
    /\ faults = FALSE
    /\ now = 0
    /\ workspaceName \in {"undefined", "timefly"}
    /\ activeActivities = <<>>
    /\ lastEventTimestamp = 0
    /\ emitted = <<>>
    /\ InitScale
    /\ InitTracker
    /\ InitState
    /\ InitRest

\* time passes
ClockAdvance ==
    /\ now + ClockStep <= MaxWindows * PULSE_GENERATION_INTERVAL
    /\ now' = now + ClockStep
    /\ UNCHANGED <<workspaceName, activeActivities, lastEventTimestamp, emitted, coreVars, exceptGen>>

\* a collector reports a raw event to onEvent of the running manager:
\* processEvent(event); a behaviour holds at most MaxNames entries at a time
ProcessEvent(event) ==
    /\ isRunning
    /\ LET name == EventActivityName(event)
       IN  activeActivities' = IF name = "null"
                                 THEN activeActivities
                                 ELSE updateActivity(activeActivities, name, now)
    /\ Len(activeActivities') <= MaxNames
    /\ lastEventTimestamp' = now
    /\ UNCHANGED <<now, workspaceName, emitted, coreVars, exceptGen>>

\* the pulse interval fires: generatePulse() up to its call of addPulse(pulse);
\* getCurrentActivities() drops the expired entries of the classifier
generatePulse ==
    /\ pulseInterval
    /\ activeActivities' = checkExpiration(activeActivities, now)
    /\ LET current == getCurrentActivities(activeActivities, lastEventTimestamp, now)
       IN  emitted' = IF Len(current) = 0 \/ ~userInfo
                        THEN <<>>
                        ELSE <<BuildPulse(current)>>
    /\ UNCHANGED <<now, workspaceName, lastEventTimestamp, coreVars, exceptGen>>

NextGen ==
    \/ StoreUserInfo
    \/ ClearAllData
    \/ Start
    \/ ClockAdvance
    \/ \E event \in GenEvents : ProcessEvent(event)
    \/ generatePulse

\* the classifier and the pulse generator
SpecGen == InitGen /\ [][NextGen]_vars

NextClassify ==
    \/ StoreUserInfo
    \/ Start
    \/ ClockAdvance
    \/ \E event \in RawEvents : ProcessEvent(event)

\* the classifier of a running manager fed with every kind of raw event
SpecClassify == InitGen /\ [][NextClassify]_vars

RECURSIVE SumDurations(_)
SumDurations(acts) ==
    IF acts = <<>> THEN 0 ELSE Head(acts).duration_ms + SumDurations(Tail(acts))

\* C13: the durations of the activities of an emitted pulse add up to at most
\* the length of the window.
C13_DurationsFitWindow ==
    \A i \in DOMAIN emitted :
        SumDurations(emitted[i].activities) <= PULSE_GENERATION_INTERVAL

\* C15: no emitted pulse contains an activity named idle or inactive; a tick
\* that finds only idle or inactive emits nothing.
C15_NoIdlePulse ==
    \A i \in DOMAIN emitted :
        \A k \in DOMAIN emitted[i].activities :
            emitted[i].activities[k].name \notin {"idle", "inactive"}

\* C16: a generation tick builds a pulse only when the user info and the name
\* of the workspace (the project identifier) are both available.
C16_PulseHasOwner ==
    [][generatePulse /\ emitted' # <<>> =>
         userInfo /\ workspaceName # "undefined"]_vars

\* C18: within one emitted pulse each activity name appears at most once.
C18_OneEntryPerName ==
    \A i \in DOMAIN emitted :
        \A k, l \in DOMAIN emitted[i].activities :
            emitted[i].activities[k].name = emitted[i].activities[l].name => k = l

\* a pulse with two activities, one of which was signalled again after it had
\* started
C18_Witness ==
    /\ emitted # <<>>
    /\ Len(emitted[1].activities) = 2
    /\ \E k \in DOMAIN activeActivities :
         activeActivities[k].startedAt < activeActivities[k].lastEventAt


\* --------------------------- durations of one window (tracker generateEvent)
\* raw durations end - start: a quarter of the window apart
RawValues == {0, 2500, 5000, 7500, 10000}

RECURSIVE SumSeq(_)
SumSeq(q) == IF q = <<>> THEN 0 ELSE Head(q) + SumSeq(Tail(q))

\* the clamping of dur to 0..PULSE_GENERATION_INTERVAL; Math.round(dur) leaves
\* a whole number of ms as it is
ClampDuration(dur) ==
    IF dur < 0 THEN 0
    ELSE IF dur > PULSE_GENERATION_INTERVAL THEN PULSE_GENERATION_INTERVAL
    ELSE dur

\* Math.round(n / d) for n >= 0, d > 0: the nearest whole number, a half
\* rounding up
RoundDiv(n, d) == (2 * n + d) \div (2 * d)

\* the duration_ms of the entries after the scaling step:
\* Math.round(a.duration_ms * scale), scale = PULSE_GENERATION_INTERVAL / totalDur
ScaleDurations(durs) ==
    LET totalDur == SumSeq(durs)
    IN  IF totalDur > PULSE_GENERATION_INTERVAL
          THEN [i \in DOMAIN durs |->
                  RoundDiv(durs[i] * PULSE_GENERATION_INTERVAL, totalDur)]
          ELSE durs

\* the duration_ms of the entries of the event for raw durations raw; <<>> when
\* the total is zero and no event is generated
EntryDurations(raw) ==
    LET durs == [i \in DOMAIN raw |-> ClampDuration(raw[i])]
    IN  IF SumSeq(durs) = 0 THEN <<>> ELSE ScaleDurations(durs)

\* a window with one to MaxNames active names and their raw durations
InitScaleInputs ==
    /\ InitCore
    /\ faults = FALSE
    /\ InitGenerator
    /\ \E n \in 1..MaxNames : rawDurations \in [1..n -> RawValues]
    /\ scaled = <<>>
    /\ InitTracker
    /\ InitState
    /\ InitRest

\* generateEvent computes the entries of the window
ComputeEntries ==
    /\ scaled = <<>>
    /\ scaled' = EntryDurations(rawDurations)
    /\ UNCHANGED <<rawDurations, coreVars, exceptScale>>

NextScale == ComputeEntries

\* the duration computation of generateEvent on its own
SpecScale == InitScaleInputs /\ [][NextScale]_vars

Abs(x) == IF x < 0 THEN -x ELSE x

\* C14: when the raw durations of a window add up to more than the window, the
\* emitted durations are the raw ones scaled by window / raw sum: each within
\* 1 ms of the exact quotient, and together exactly the window.
C14_ProportionalScaling ==
    (scaled # <<>> /\ SumSeq(rawDurations) > PULSE_GENERATION_INTERVAL) =>
        /\ SumSeq(scaled) = PULSE_GENERATION_INTERVAL
        /\ \A i \in DOMAIN scaled :
             Abs(scaled[i] * SumSeq(rawDurations)
                   - rawDurations[i] * PULSE_GENERATION_INTERVAL)
               <= SumSeq(rawDurations)


\* ------------------------------------------- activity tracker (startTracking)
\* Set.add, Set.delete and Set.has on a Set kept in insertion order
SetAdd(set, name) == IF name \in Range(set) THEN set ELSE Append(set, name)
SetDelete(set, name) == SelectSeq(set, LAMBDA n : n # name)
SetHas(set, name) == name \in Range(set)

\* handleIdleChecks() at time t: what it leaves in activeActivities
handleIdleChecks(set, t) ==
    IF SetHas(set, "inactive") THEN set
    ELSE IF t - lastUserActivity >= IDLE_THRESHOLD + INACTIVE_THRESHOLD
           THEN <<"inactive">>
           ELSE IF t - lastUserActivity >= IDLE_THRESHOLD /\ ~SetHas(set, "idle")
                  THEN <<"idle">>
                  ELSE set

\* end - start of an active name in generateEvent
RawDuration(name) ==
    LET start == IF firstSeen[name] = NoTime THEN windowStart ELSE firstSeen[name]
        end == IF lastSeen[name] = NoTime THEN now ELSE lastSeen[name]
    IN  end - start

InitTrackerSpec ==
    /\ InitCore
    /\ faults = FALSE
    /\ InitGenerator
    /\ InitScale
    /\ InitTracker
    /\ InitState
    /\ InitRest

\* mergeMeta(a, b): numbers are summed, any other value of b replaces that of a
mergeMeta(a, b) ==
    Meta(a.chars + b.chars, IF b.event = "none" THEN a.event ELSE b.event)

\* the metadata the detectors pass to recordActivity
Metas == {Meta(5, "typing"), Meta(5, "none"), Meta(0, "paste")}

\* a debounce test that never holds
DebouncedNever(prev, t) == FALSE

\* `now - prev < DETECTOR_DEBOUNCE_MS`, prev being lastTrigger.get(activity)
\* or minus infinity
Debounced(prev, t) == prev # NoTime /\ t - prev < DETECTOR_DEBOUNCE_MS

\* a detector calls recordActivity(activity, meta)
RecordActivity(activity, meta) ==
    /\ trackerRunning
    /\ signals < MaxSignals
    /\ signals' = signals + 1
    /\ lastUserActivity' = now
    /\ activityMeta' = [activityMeta EXCEPT ![activity] = mergeMeta(@, meta)]
    /\ IF Debounced(lastTrigger[activity], now)
         THEN /\ lastSeen' = [lastSeen EXCEPT ![activity] = now]
              /\ UNCHANGED <<lastTrigger, firstSeen, activeNames>>
         ELSE /\ lastTrigger' = [lastTrigger EXCEPT ![activity] = now]
              /\ firstSeen' = IF firstSeen[activity] = NoTime
                                THEN [firstSeen EXCEPT ![activity] = now]
                                ELSE firstSeen
              /\ lastSeen' = [lastSeen EXCEPT ![activity] = now]
              /\ activeNames' =
                   SetAdd(IF activity \notin {"idle", "inactive"}
                            THEN SetDelete(SetDelete(activeNames, "idle"), "inactive")
                            ELSE activeNames,
                          activity)
    /\ UNCHANGED <<trackerRunning, windowStart, events, ticks, dailyProductiveMs,
                   coreVars, exceptTracker>>

\* a window passes without the event timer being due, and the idle checker
\* fires at its end: handleIdleChecks()
IdleCheckerTick ==
    /\ trackerRunning
    /\ now < (ticks + 1) * PULSE_GENERATION_INTERVAL
    /\ ticks + 1 <= MaxWindows
    /\ now' = (ticks + 1) * PULSE_GENERATION_INTERVAL
    /\ activeNames' = handleIdleChecks(activeNames, now')
    /\ UNCHANGED <<workspaceName, activeActivities, lastEventTimestamp, emitted>>
    /\ UNCHANGED <<trackerRunning, lastUserActivity, firstSeen, lastSeen, lastTrigger,
                   windowStart, events, ticks, signals, activityMeta,
                   dailyProductiveMs, coreVars,
                   scaleVars, stateVars, callerVars, restVars>>

\* the time between two signals in quick succession
QUICK_STEP_MS == 100

\* quick steps of the clock within one window
MaxQuick == 3

\* a short time passes within the window
QuickStep ==
    /\ trackerRunning
    /\ now + QUICK_STEP_MS - ticks * PULSE_GENERATION_INTERVAL <= MaxQuick * QUICK_STEP_MS
    /\ now + QUICK_STEP_MS < (ticks + 1) * PULSE_GENERATION_INTERVAL
    /\ now' = now + QUICK_STEP_MS
    /\ UNCHANGED <<workspaceName, activeActivities, lastEventTimestamp, emitted>>
    /\ UNCHANGED <<trackerVars, coreVars, scaleVars, stateVars, callerVars, restVars>>

\* the activities that count toward the daily productive time
PRODUCTIVE_ACTIVITIES == {"coding", "debugging", "reading", "ai_usage", "terminal_usage"}

\* the sum of duration_ms of the productive entries of a list of activities
RECURSIVE ProductiveSum(_)
ProductiveSum(acts) ==
    IF acts = <<>> THEN 0
    ELSE (IF Head(acts).name \in PRODUCTIVE_ACTIVITIES THEN Head(acts).duration_ms ELSE 0)
            + ProductiveSum(Tail(acts))

\* the ActivityEvent that generateEvent builds
BuildEvent(durs) ==
    [user_id |-> "uuid",
     project_id |-> ProjectId(workspaceName),
     activities |-> [i \in DOMAIN activeNames |->
                       [name |-> activeNames[i], duration_ms |-> durs[i],
                        properties |-> activityMeta[activeNames[i]]]]]

\* `dailyProductiveMs += addedProductive`
AddProductive(total, acts) == total + ProductiveSum(acts)

\* the event timer fires: generateEvent()
GenerateEvent ==
    /\ trackerRunning
    /\ now = (ticks + 1) * PULSE_GENERATION_INTERVAL
    /\ ticks' = ticks + 1
    /\ LET durs == EntryDurations([i \in DOMAIN activeNames |-> RawDuration(activeNames[i])])
       IN  IF activeNames = <<>> \/ ~userInfo \/ durs = <<>>
             THEN UNCHANGED <<events, activityMeta, firstSeen, lastSeen, lastTrigger,
                              windowStart, dailyProductiveMs>>
             ELSE /\ dailyProductiveMs' = AddProductive(dailyProductiveMs,
                                                        BuildEvent(durs).activities)
                  /\ events' = Append(events, BuildEvent(durs))
                  /\ activityMeta' = NoMetas
                  /\ firstSeen' = NoTimes
                  /\ lastSeen' = NoTimes
                  /\ lastTrigger' = NoTimes
                  /\ windowStart' = now
    /\ UNCHANGED <<trackerRunning, lastUserActivity, activeNames, signals, coreVars, exceptTracker>>

\* dispose(): the timers are cleared and flushEvents('shutdown') empties the
\* buffer
Dispose ==
    /\ trackerRunning
    /\ trackerRunning' = FALSE
    /\ events' = <<>>
    /\ UNCHANGED <<lastUserActivity, activeNames, firstSeen, lastSeen, lastTrigger,
                   windowStart, ticks, signals, activityMeta, dailyProductiveMs,
                   coreVars, exceptTracker>>

NextTracker ==
    \/ StoreUserInfo
    \/ ClearAllData
    \/ \E activity \in RealNames : RecordActivity(activity, EmptyMeta)
    \/ IdleCheckerTick
    \/ GenerateEvent
    \/ Dispose

\* the activity tracker with its idle checker and event timer
SpecTracker == InitTrackerSpec /\ [][NextTracker]_vars

\* windows of the behaviours with signals in quick succession
MaxMetaWindows == 2

\* the rest of a window passes, for the first MaxMetaWindows windows
WindowEnds ==
    /\ ticks < MaxMetaWindows
    /\ IdleCheckerTick

NextMeta ==
    \/ StoreUserInfo
    \/ \E activity \in RealNames, meta \in Metas : RecordActivity(activity, meta)
    \/ QuickStep
    \/ WindowEnds
    \/ GenerateEvent

\* the activity tracker with detectors that pass metadata, some of them
\* within the debounce window of the previous one
SpecMeta == InitTrackerSpec /\ [][NextMeta]_vars

\* C17: every tick of the event timer leaves the bookkeeping of the window
\* reset: no first-seen, last-seen or last-trigger time, and the window starts
\* at the tick.
C17_TickResetsWindow ==
    [][ticks' # ticks =>
         /\ firstSeen' = NoTimes
         /\ lastSeen' = NoTimes
         /\ lastTrigger' = NoTimes
         /\ windowStart' = now]_vars


\* the tick of a window in which coding was signalled once, at its start, and
\* nothing else: user info and the workspace name are present
OneCodingSignal ==
    /\ ticks' # ticks
    /\ userInfo
    /\ workspaceName # "undefined"
    /\ signals = 1
    /\ activeNames = <<"coding">>
    /\ firstSeen["coding"] = now - PULSE_GENERATION_INTERVAL
    /\ lastSeen["coding"] = now - PULSE_GENERATION_INTERVAL

\* C19: one coding signal, a full window later one tick: exactly one event is
\* emitted, with a single coding entry of about the length of the window (at
\* most one period of the idle checker short of it).
C19_OneSignalOnePulse ==
    [][OneCodingSignal =>
         /\ Len(events') = Len(events) + 1
         /\ LET e == events'[Len(events')]
            IN  /\ Len(e.activities) = 1
                /\ e.activities[1].name = "coding"
                /\ e.activities[1].duration_ms \in
                      (PULSE_GENERATION_INTERVAL - 1000)..PULSE_GENERATION_INTERVAL]_vars

\* ------------------- activity state manager (state.ts) and runPulseCheck
\* the pulse interval of the manager that reads the state manager
PULSE_INTERVAL_MS == 5000

\* a recordActivity that adds the name without waking up from idle or inactive
WakeUpKeep(set) == set

\* recordActivity: `if (has(IDLE) || has(INACTIVE)) clear()`
WakeUp(set) ==
    IF "idle" \in set \/ "inactive" \in set THEN {} ELSE set

InitStateSpec ==
    /\ InitCore
    /\ faults = FALSE
    /\ InitGenerator
    /\ InitScale
    /\ InitTracker
    /\ InitState
    /\ InitRest

\* startTracking(): initStateManager() resets the timers, the intervals are
\* set and isTracking becomes true
StartTracking ==
    /\ ~isTracking
    /\ idleTimer' = TRUE
    /\ inactiveTimer' = FALSE
    /\ isTracking' = TRUE
    /\ UNCHANGED <<currentActivities, pulseCheck, created, coreVars, exceptState>>

\* stopTracking(): the intervals are cleared and isTracking becomes false
StopTracking ==
    /\ isTracking
    /\ isTracking' = FALSE
    /\ UNCHANGED <<currentActivities, idleTimer, inactiveTimer, pulseCheck, created,
                   coreVars, exceptState>>

\* a collector calls recordActivity(name): resetTimers(), wake up, add
StateRecordActivity(name) ==
    /\ idleTimer' = TRUE
    /\ inactiveTimer' = FALSE
    /\ currentActivities' = WakeUp(currentActivities) \cup {name}
    /\ UNCHANGED <<isTracking, pulseCheck, created, coreVars, exceptState>>

\* a clearActivity that also restarts the timers, as recordActivity does
StateClearActivityResetTimers(name) ==
    /\ currentActivities' = currentActivities \ {name}
    /\ idleTimer' = TRUE
    /\ inactiveTimer' = FALSE
    /\ UNCHANGED <<isTracking, pulseCheck, created, coreVars, exceptState>>

\* the debug session ends: clearActivity(DEBUGGING)
StateClearActivity(name) ==
    /\ currentActivities' = currentActivities \ {name}
    /\ UNCHANGED <<idleTimer, inactiveTimer, isTracking, pulseCheck, created,
                   coreVars, exceptState>>

\* the idle timer fires: goIdle()
GoIdle ==
    /\ idleTimer
    /\ idleTimer' = FALSE
    /\ currentActivities' = {"idle"}
    /\ inactiveTimer' = TRUE
    /\ UNCHANGED <<isTracking, pulseCheck, created, coreVars, exceptState>>

\* the inactive timer fires: goInactive()
GoInactive ==
    /\ inactiveTimer
    /\ inactiveTimer' = FALSE
    /\ currentActivities' = {"inactive"}
    /\ UNCHANGED <<idleTimer, isTracking, pulseCheck, created, coreVars, exceptState>>

\* the activities runPulseCheck collects: coding and reading only when their
\* collector has data, debugging always
PulseActivities(typing, editor) ==
    (IF "coding" \in currentActivities /\ typing
       THEN <<[name |-> "coding", duration_ms |-> PULSE_INTERVAL_MS]>> ELSE <<>>)
    \o (IF "reading" \in currentActivities /\ editor
       THEN <<[name |-> "reading", duration_ms |-> PULSE_INTERVAL_MS]>> ELSE <<>>)
    \o (IF "debugging" \in currentActivities
       THEN <<[name |-> "debugging", duration_ms |-> PULSE_INTERVAL_MS]>> ELSE <<>>)

\* the pulse interval fires: runPulseCheck() up to `await updateTrackingStats`
RunPulseCheck ==
    /\ isTracking
    /\ pulseCheck.pc = "idle"
    /\ \E typing, editor \in BOOLEAN :
         pulseCheck' = [pc |-> "create", activities |-> PulseActivities(typing, editor)]
    /\ UNCHANGED <<currentActivities, idleTimer, inactiveTimer, isTracking, created,
                   coreVars, exceptState>>

\* getProjectId()
getProjectId == IF workspaceName = "undefined" THEN "unknown_project" ELSE workspaceName

\* runPulseCheck() after the await: createPulse(pulseActivities) when there is
\* an activity; createPulse returns null without user info
RunPulseCreate ==
    /\ pulseCheck.pc = "create"
    /\ pulseCheck' = [pc |-> "idle", activities |-> <<>>]
    /\ created' = IF Len(pulseCheck.activities) > 0 /\ userInfo
                    THEN <<[user_id |-> "uuid", project_id |-> getProjectId,
                            activities |-> pulseCheck.activities]>>
                    ELSE <<>>
    /\ UNCHANGED <<currentActivities, idleTimer, inactiveTimer, isTracking,
                   coreVars, exceptState>>

NextState ==
    \/ StoreUserInfo
    \/ ClearAllData
    \/ StartTracking
    \/ StopTracking
    \/ \E name \in StateNames : StateRecordActivity(name)
    \/ StateClearActivity("debugging")
    \/ GoIdle
    \/ GoInactive
    \/ RunPulseCheck
    \/ RunPulseCreate

\* the activity state manager and the manager that reads it
SpecState == InitStateSpec /\ [][NextState]_vars

\* a string that is not a member of ActivityName
InvalidNames == {"bogus"}

\* a caller calls getCurrentActivities(): `return currentActivities`, the
\* caller holds the Set of the state manager itself
StateGetCurrentActivities ==
    /\ returned' = "live"
    /\ UNCHANGED <<stateVars, coreVars, genVars, scaleVars, trackerVars, restVars>>

\* the caller deletes a name from the Set it was given, which is the Set of
\* the state manager
ReturnedDelete(name) ==
    /\ returned = "live"
    /\ currentActivities' = currentActivities \ {name}
    /\ UNCHANGED <<idleTimer, inactiveTimer, isTracking, pulseCheck, created,
                   coreVars, exceptState>>

NextStateApi ==
    \/ StoreUserInfo
    \/ StartTracking
    \/ StopTracking
    \/ \E name \in StateNames \cup InvalidNames : StateRecordActivity(name)
    \/ StateClearActivity("debugging")
    \/ GoIdle
    \/ GoInactive
    \/ StateGetCurrentActivities
    \/ \E name \in StateNames \cup {"idle", "inactive"} : ReturnedDelete(name)
    \/ RunPulseCheck
    \/ RunPulseCreate

\* the activity state manager with callers that pass any string and that keep
\* what getCurrentActivities() returned
SpecStateApi == InitStateSpec /\ [][NextStateApi]_vars

\* C20: the current activity set never holds idle or inactive together with a
\* real activity name, and never holds both idle and inactive.
C20_PseudoActivitiesAlone ==
    /\ "idle" \in currentActivities => currentActivities = {"idle"}
    /\ "inactive" \in currentActivities => currentActivities = {"inactive"}

\* two real activities at once: recordActivity has woken the manager up from
\* idle and a second name was recorded
C20_Witness ==
    /\ Cardinality(currentActivities) = 2
    /\ currentActivities \subseteq StateNames
    /\ idleTimer

\* the same for the set of the activity tracker (startTracking): idle and
\* inactive stand alone
TrackerPseudoActivitiesAlone ==
    /\ SetHas(activeNames, "idle") => activeNames = <<"idle">>
    /\ SetHas(activeNames, "inactive") => activeNames = <<"inactive">>

\* the tracker has gone from a real activity to idle
TrackerWentIdle ==
    /\ activeNames = <<"idle">>
    /\ signals > 0

\* the names of what getCurrentActivities() returns now
CurrentNames ==
    LET current == getCurrentActivities(activeActivities, lastEventTimestamp, now)
    IN  [i \in DOMAIN current |-> current[i].name]

\* C21: after at least IDLE_THRESHOLD without a signal, and less than
\* IDLE_THRESHOLD + INACTIVE_THRESHOLD, getCurrentActivities() is exactly idle;
\* after at least IDLE_THRESHOLD + INACTIVE_THRESHOLD it is exactly inactive.
C21_SilenceGivesIdleThenInactive ==
    LET silence == now - lastEventTimestamp
    IN  /\ silence >= IDLE_THRESHOLD + INACTIVE_THRESHOLD
             => CurrentNames = <<"inactive">>
        /\ (silence >= IDLE_THRESHOLD /\ silence < IDLE_THRESHOLD + INACTIVE_THRESHOLD)
             => CurrentNames = <<"idle">>

\* C26: getCurrentActivities() returns no real activity whose last event is
\* older than ACTIVITY_EXPIRATION_THRESHOLD, and returns every activity whose
\* last event is not.
C26_ExpiredDroppedOthersKept ==
    LET current == getCurrentActivities(activeActivities, lastEventTimestamp, now)
    IN  /\ \A i \in DOMAIN current :
             current[i].name \notin {"idle", "inactive"}
               => now - current[i].lastEventAt <= ACTIVITY_EXPIRATION_THRESHOLD
        /\ \A k \in DOMAIN activeActivities :
             now - activeActivities[k].lastEventAt <= ACTIVITY_EXPIRATION_THRESHOLD
               => \E i \in DOMAIN current : current[i] = activeActivities[k]

\* one activity has expired while another is kept alive
C26_Witness ==
    /\ \E k \in DOMAIN activeActivities :
         now - activeActivities[k].lastEventAt > ACTIVITY_EXPIRATION_THRESHOLD
    /\ \E k \in DOMAIN activeActivities :
         now - activeActivities[k].lastEventAt <= ACTIVITY_EXPIRATION_THRESHOLD

\* C29: an event whose type maps to no activity refreshes the global
\* last-event clock only: no activity is added or changed.
C29_UnmappedEventOnlyRefreshesClock ==
    [][\A event \in RawEvents :
         (event.type = "system" /\ ProcessEvent(event)) =>
             /\ activeActivities' = activeActivities
             /\ lastEventTimestamp' = now]_vars

\* an unmapped event came after the last event of every active activity
C29_Witness ==
    /\ activeActivities # <<>>
    /\ lastEventTimestamp = now
    /\ \A k \in DOMAIN activeActivities :
         activeActivities[k].lastEventAt < lastEventTimestamp

\* the table of the classifier: the activity name of each kind of signal,
\* "null" for every other kind
TableName(event) ==
    IF event = Event("document", "change") THEN "coding"
    ELSE IF event \in {Event("document", "selection"), Event("document", "scroll"),
                       Event("file", "switch")} THEN "reading"
    ELSE IF event \in {Event("debug", "start"), Event("debug", "stop")} THEN "debugging"
    ELSE IF event = Event("terminal", "open") THEN "terminal_usage"
    ELSE IF event = Event("ai", "interaction") THEN "ai_usage"
    ELSE "null"

\* C30: processEvent treats every raw event as the table says: an event of a
\* kind in the table refreshes or starts the activity of that name and no
\* other, an event of any other kind changes no activity.
C30_ClassifierTable ==
    [][\A event \in RawEvents :
         ProcessEvent(event) =>
             IF TableName(event) = "null"
               THEN activeActivities' = activeActivities
               ELSE /\ \E i \in DOMAIN activeActivities' :
                         /\ activeActivities'[i].name = TableName(event)
                         /\ activeActivities'[i].lastEventAt = now
                    /\ \A i \in DOMAIN activeActivities' :
                         activeActivities'[i].name # TableName(event)
                           => \E k \in DOMAIN activeActivities :
                                activeActivities[k] = activeActivities'[i]]_vars

\* C24: when the current set holds only idle or inactive, one recordActivity
\* call with a real name leaves exactly that name in the set.
C24_WakeUpIsImmediate ==
    [][\A name \in StateNames :
         (/\ currentActivities # {}
          /\ currentActivities \subseteq {"idle", "inactive"}
          /\ StateRecordActivity(name))
           => currentActivities' = {name}]_vars

\* the manager has been woken up: a single real name with the idle timer
\* restarted (the set starts as inactive, and is emptied only by clearActivity)
C24_Witness ==
    /\ currentActivities = {"reading"}
    /\ idleTimer
    /\ ~inactiveTimer
    /\ isTracking

\* the same for recordActivity of the activity tracker (startTracking)
TrackerWakeUpIsImmediate ==
    [][\A activity \in RealNames :
         (activeNames \in {<<"idle">>, <<"inactive">>}
            /\ RecordActivity(activity, EmptyMeta))
           => activeNames' = <<activity>>]_vars

\* C25: clearActivity(name) removes that name and nothing else from the set,
\* also while a timer is pending, and leaves the idle and inactive timers as
\* they are.
C25_ClearActivityFrame ==
    [][\A name \in StateNames :
         StateClearActivity(name) =>
             /\ currentActivities' = currentActivities \ {name}
             /\ idleTimer' = idleTimer
             /\ inactiveTimer' = inactiveTimer]_vars

\* clearActivity has emptied the set while the idle timer is pending
C25_Witness ==
    /\ currentActivities = {}
    /\ idleTimer

\* C22: the metadata entry of a name holds the merge of the calls of the
\* current window: after a recordActivity(name, meta) call its numeric field
\* is the sum over the calls of this window and its string field is that of
\* the most recent call that has one; the first call of a window starts from
\* empty metadata.
C22_MetadataMergedPerWindow ==
    [][\A activity \in RealNames, meta \in Metas :
         RecordActivity(activity, meta) =>
             LET first == \/ lastSeen[activity] = NoTime
                          \/ lastSeen[activity] < ticks * PULSE_GENERATION_INTERVAL
                 before == IF first THEN EmptyMeta ELSE activityMeta[activity]
             IN  /\ activityMeta'[activity].chars = before.chars + meta.chars
                 /\ activityMeta'[activity].event =
                      IF meta.event = "none" THEN before.event ELSE meta.event]_vars

\* the merge step alone: a call adds its numeric field to the entry of the
\* name and replaces the string field when it has one
MergeStepSumsAndOverwrites ==
    [][\A activity \in RealNames, meta \in Metas :
         RecordActivity(activity, meta) =>
             /\ activityMeta'[activity].chars = activityMeta[activity].chars + meta.chars
             /\ activityMeta'[activity].event =
                  IF meta.event = "none" THEN activityMeta[activity].event ELSE meta.event
             /\ \A other \in TrackerNames \ {activity} :
                  activityMeta'[other] = activityMeta[other]]_vars

\* two calls with chars 5 within the debounce window of a fresh tracker give
\* one entry with chars 10
TwoCallsGiveTen ==
    /\ signals = 2
    /\ ticks = 0
    /\ lastTrigger["coding"] = 0
    /\ lastSeen["coding"] = QUICK_STEP_MS
    /\ activityMeta["coding"].chars = 10

\* C23: a recordActivity(name) call within the debounce window of the
\* previous trigger of that name merges its metadata and leaves firstSeen of
\* the name, the debounce origin of the name and the active set unchanged.
C23_DebouncedCallFrame ==
    [][\A activity \in RealNames, meta \in Metas :
         (/\ lastTrigger[activity] # NoTime
          /\ now - lastTrigger[activity] < DETECTOR_DEBOUNCE_MS
          /\ RecordActivity(activity, meta))
           => /\ firstSeen'[activity] = firstSeen[activity]
              /\ lastTrigger'[activity] = lastTrigger[activity]
              /\ activeNames' = activeNames
              /\ activityMeta'[activity].chars
                   = activityMeta[activity].chars + meta.chars]_vars

\* a call was debounced: the name was seen after its trigger, within the
\* debounce window, and the metadata of two calls is merged
C23_Witness ==
    /\ lastTrigger["coding"] # NoTime
    /\ lastSeen["coding"] > lastTrigger["coding"]
    /\ lastSeen["coding"] - lastTrigger["coding"] < DETECTOR_DEBOUNCE_MS
    /\ firstSeen["coding"] = lastTrigger["coding"]
    /\ activityMeta["coding"].chars = 10

\* C27: getCurrentActivities() changes nothing in the state manager, so that
\* two calls in a row return the same, and a change the caller makes to the
\* collection it was given does not change the current activity set.
C27_SnapshotCopy ==
    [][/\ StateGetCurrentActivities
            => UNCHANGED <<currentActivities, idleTimer, inactiveTimer>>
       /\ \A name \in StateNames \cup {"idle", "inactive"} :
            ReturnedDelete(name) => currentActivities' = currentActivities]_vars

\* the read alone: getCurrentActivities() changes nothing in the state manager
GetCurrentActivitiesReadsOnly ==
    [][StateGetCurrentActivities
         => UNCHANGED <<currentActivities, idleTimer, inactiveTimer>>]_vars

\* C28: recordActivity with a name outside the closed set of activity names
\* changes neither the current activity set nor the timers.
C28_InvalidNameRejected ==
    [][\A name \in InvalidNames :
         StateRecordActivity(name)
           => UNCHANGED <<currentActivities, idleTimer, inactiveTimer>>]_vars

\* C34: whatever the order of the start and stop calls, no interval is
\* running while the service is stopped: after stop() nothing that an earlier
\* start() created is left running.
C34_NoIntervalWhileStopped ==
    tsTimers => tsRunning

\* C37: while the storage reports not authenticated no step starts the
\* manager, its pulse timer or its sync timer, and while the manager is not
\* running no step changes the classifier: a raw event delivered to onEvent
\* is dropped.
C37_RunsOnlyWhenAuthenticated ==
    [][/\ ~isAuthenticated =>
            /\ isRunning' => isRunning
            /\ pulseInterval' => pulseInterval
            /\ syncInterval' => syncInterval
       /\ ~isRunning =>
            /\ activeActivities' = activeActivities
            /\ lastEventTimestamp' = lastEventTimestamp]_vars

\* the manager was started for an authenticated user and an event has reached
\* the classifier at a later time
C37_Witness ==
    /\ isRunning
    /\ isAuthenticated
    /\ lastEventTimestamp > 0
    /\ activeActivities # <<>>

\* C39: when the event timer fires for a window in which no signal for the
\* only active real activity has arrived, with the user known, a Pulse is
\* emitted that reports the activity with the full window duration.
C39_QuietWindowStillReported ==
    [][\A activity \in RealNames :
         (/\ GenerateEvent
          /\ userInfo
          /\ activeNames = <<activity>>
          /\ \/ lastSeen[activity] = NoTime
             \/ lastSeen[activity] < ticks * PULSE_GENERATION_INTERVAL)
           => /\ Len(events') = Len(events) + 1
              /\ events'[Len(events')].activities
                   = <<[name |-> activity, duration_ms |-> PULSE_GENERATION_INTERVAL,
                        properties |-> activityMeta[activity]]>>]_vars

\* the same after a tick that has emitted a Pulse and reset the window
QuietWindowAfterReset ==
    [][\A activity \in RealNames :
         (/\ GenerateEvent
          /\ userInfo
          /\ activeNames = <<activity>>
          /\ lastSeen[activity] = NoTime
          /\ windowStart = ticks * PULSE_GENERATION_INTERVAL)
           => /\ Len(events') = Len(events) + 1
              /\ events'[Len(events')].activities
                   = <<[name |-> activity, duration_ms |-> PULSE_GENERATION_INTERVAL,
                        properties |-> activityMeta[activity]]>>]_vars

\* a quiet window after a reset was reported
QuietWindowReported ==
    /\ Len(events) = 2
    /\ signals = 2
    /\ ticks = 2
    /\ activeNames = <<"coding">>
    /\ events[2].activities[1].duration_ms = PULSE_GENERATION_INTERVAL

\* C35: syncPulses leaves the stored pulses as they are when the POST fails,
\* and the clearPulses after a successful POST leaves in storage every pulse
\* that was stored while the POST was in flight.
C35_SyncPulsesKeepsUnsent ==
    [][\A s \in SyncIds :
         /\ SyncPulsesFailed(s) => pulseQueue' = pulseQueue
         /\ SyncPulsesPosted(s) =>
              \A p \in Range(pulseQueue) \ Range(qsync[s].pulses) :
                  p \in Range(pulseQueue')]_vars

\* the part about failure alone: a failed POST leaves the stored pulses alone,
\* and the pulses are cleared only by a successful POST
SyncPulsesClearsOnlyOnSuccess ==
    [][\A p \in Range(pulseQueue) :
         p \notin Range(pulseQueue') => \E s \in SyncIds : SyncPulsesPosted(s)]_vars

\* ------------------------------------------------ createDebounce (throttle.ts)
exceptDebounce == <<scaleVars, trackerVars, stateVars, callerVars, timerVars, dailyVars>>

\* the delay of debouncedRecordCoding
DEBOUNCE_MS == 50

\* the step of the clock between two events of the editor: half the delay
DEBOUNCE_STEP_MS == DEBOUNCE_MS \div 2

\* calls of the debounced function and steps of the clock in one behaviour
MaxDebounceCalls == 3
MaxDebounceSteps == 6

\* a setTimeout without the clearTimeout before it
ScheduleNoClear(pending, timer, t) == pending \cup {t}

\* `if (timer) clearTimeout(timer)` and `timer = setTimeout(...)`: the
\* timeouts that are set after the call
Schedule(pending, timer, t) == (pending \ Range(timer)) \cup {t}

\* the debounced function is called; its argument is the number of the call
DebouncedCall ==
    /\ Len(dbCalls) < MaxDebounceCalls
    /\ LET t == [due |-> now + DEBOUNCE_MS, args |-> Len(dbCalls) + 1]
       IN  /\ dbPending' = Schedule(dbPending, dbTimer, t)
           /\ dbTimer' = <<t>>
    /\ dbCalls' = Append(dbCalls, now)
    /\ UNCHANGED <<dbInvoked, genVars, coreVars, exceptDebounce>>

\* a timeout expires: fn(...args)
DebounceFire ==
    /\ \E t \in dbPending :
         /\ t.due = now
         /\ dbPending' = dbPending \ {t}
         /\ dbInvoked' = Append(dbInvoked, [at |-> now, args |-> t.args])
    /\ UNCHANGED <<dbTimer, dbCalls, genVars, coreVars, exceptDebounce>>

\* time passes, up to the next timeout that is due
DebounceClock ==
    /\ \A t \in dbPending : t.due > now
    /\ now + DEBOUNCE_STEP_MS <= MaxDebounceSteps * DEBOUNCE_STEP_MS
    /\ now' = now + DEBOUNCE_STEP_MS
    /\ UNCHANGED <<workspaceName, activeActivities, lastEventTimestamp, emitted>>
    /\ UNCHANGED <<debounceVars, coreVars, exceptDebounce>>

NextDebounce ==
    \/ DebouncedCall
    \/ DebounceFire
    \/ DebounceClock

\* one debounced function, called at any instants of the clock
SpecDebounce == Init /\ [][NextDebounce]_vars

\* call k is followed by a call less than DEBOUNCE_MS later
Superseded(k) == k < Len(dbCalls) /\ dbCalls[k + 1] - dbCalls[k] < DEBOUNCE_MS

\* call k is the last one of its burst for certain: no call follows within
\* DEBOUNCE_MS, that instant included
EndsBurst(k) == k = Len(dbCalls) \/ dbCalls[k + 1] - dbCalls[k] > DEBOUNCE_MS

\* C33: fn is invoked only with the arguments of a call that no other call
\* follows in less than ms, exactly ms after that call and once; the last
\* call of every burst is invoked once ms have passed.
C33_DebounceCoalescesBurst ==
    /\ \A i \in DOMAIN dbInvoked :
         LET k == dbInvoked[i].args
         IN  /\ ~Superseded(k)
             /\ dbInvoked[i].at = dbCalls[k] + DEBOUNCE_MS
             /\ \A j \in DOMAIN dbInvoked : dbInvoked[j].args = k => j = i
    /\ \A k \in DOMAIN dbCalls :
         (EndsBurst(k) /\ dbCalls[k] + DEBOUNCE_MS < now)
           => \E i \in DOMAIN dbInvoked : dbInvoked[i].args = k

\* a burst of three calls, each 25 ms after the one before, has given one
\* invocation, with the arguments of the third call, 50 ms after it
C33_Witness ==
    /\ dbCalls = <<0, DEBOUNCE_STEP_MS, 2 * DEBOUNCE_STEP_MS>>
    /\ dbInvoked = <<[at |-> 2 * DEBOUNCE_STEP_MS + DEBOUNCE_MS, args |-> 3]>>
    /\ now > 2 * DEBOUNCE_STEP_MS + DEBOUNCE_MS

\* ------------------------------------------- the timers of state.ts, in time
IDLE_THRESHOLD_MS == 90000
INACTIVE_THRESHOLD_MS == 60000

\* the step of the clock of the state manager: both thresholds are multiples
STATE_STEP_MS == INACTIVE_THRESHOLD_MS \div 2

\* steps of that clock in one behaviour
MaxStateSteps == 9

exceptTimers == <<scaleVars, trackerVars, callerVars, debounceVars, dailyVars>>
genRest == <<workspaceName, activeActivities, lastEventTimestamp, emitted>>

\* a timeout of the state manager
Timeout(kind, due) == [kind |-> kind, due |-> due]

\* a resetTimers that leaves the inactive timeout set
ResetTimersKeepInactive(pending, idleH, inactiveH, t) ==
    (pending \ {Timeout("idle", idleH)})
       \cup {Timeout("idle", t + IDLE_THRESHOLD_MS)}

\* resetTimers() at time t: both handles are cleared and the idle timeout is
\* set; the timeouts that are set after it
ResetTimers(pending, idleH, inactiveH, t) ==
    (pending \ {Timeout("idle", idleH), Timeout("inactive", inactiveH)})
       \cup {Timeout("idle", t + IDLE_THRESHOLD_MS)}

\* startTracking() of the manager: initStateManager() calls resetTimers()
TimedStartTracking ==
    /\ ~isTracking
    /\ isTracking' = TRUE
    /\ stPending' = ResetTimers(stPending, idleHandle, inactiveHandle, now)
    /\ idleHandle' = now + IDLE_THRESHOLD_MS
    /\ idleTimer' = TRUE
    /\ inactiveTimer' = FALSE
    /\ initAt' = now
    /\ UNCHANGED <<currentActivities, pulseCheck, created, inactiveHandle,
                   lastRecordAt, enteredIdleAt, genVars, coreVars, exceptTimers>>

\* a collector, registered by the initialization, calls recordActivity(name)
TimedRecordActivity(name) ==
    /\ initAt # NoTime
    /\ stPending' = ResetTimers(stPending, idleHandle, inactiveHandle, now)
    /\ idleHandle' = now + IDLE_THRESHOLD_MS
    /\ idleTimer' = TRUE
    /\ inactiveTimer' = FALSE
    /\ currentActivities' = WakeUp(currentActivities) \cup {name}
    /\ lastRecordAt' = now
    /\ UNCHANGED <<isTracking, pulseCheck, created, inactiveHandle, initAt,
                   enteredIdleAt, genVars, coreVars, exceptTimers>>

\* an idle timeout is due: goIdle() sets the inactive timeout
TimedGoIdle ==
    /\ Timeout("idle", now) \in stPending
    /\ stPending' = (stPending \ {Timeout("idle", now)})
                       \cup {Timeout("inactive", now + INACTIVE_THRESHOLD_MS)}
    /\ inactiveHandle' = now + INACTIVE_THRESHOLD_MS
    /\ currentActivities' = {"idle"}
    /\ idleTimer' = FALSE
    /\ inactiveTimer' = TRUE
    /\ enteredIdleAt' = now
    /\ UNCHANGED <<isTracking, pulseCheck, created, idleHandle, lastRecordAt,
                   initAt, genVars, coreVars, exceptTimers>>

\* an inactive timeout is due: goInactive()
TimedGoInactive ==
    /\ Timeout("inactive", now) \in stPending
    /\ stPending' = stPending \ {Timeout("inactive", now)}
    /\ currentActivities' = {"inactive"}
    /\ inactiveTimer' = FALSE
    /\ UNCHANGED <<idleTimer, isTracking, pulseCheck, created, idleHandle,
                   inactiveHandle, lastRecordAt, initAt, enteredIdleAt,
                   genVars, coreVars, exceptTimers>>

\* time passes, up to the next timeout that is due
StateClock ==
    /\ \A t \in stPending : t.due > now
    /\ now + STATE_STEP_MS <= MaxStateSteps * STATE_STEP_MS
    /\ now' = now + STATE_STEP_MS
    /\ UNCHANGED <<genRest, stateVars, timerVars, coreVars, exceptTimers>>

NextStateTimers ==
    \/ TimedStartTracking
    \/ StopTracking
    \/ \E name \in StateNames : TimedRecordActivity(name)
    \/ StateClearActivity("debugging")
    \/ TimedGoIdle
    \/ TimedGoInactive
    \/ StateClock

\* the state manager with its timeouts and a clock
SpecStateTimers == InitStateSpec /\ [][NextStateTimers]_vars

\* the latest resetTimers(): by recordActivity or by initStateManager
LastResetAt == IF lastRecordAt > initAt THEN lastRecordAt ELSE initAt

\* the state was not idle and becomes idle
EntersIdle == "idle" \in currentActivities' /\ "idle" \notin currentActivities

\* the state was not inactive and becomes inactive
EntersInactive ==
    "inactive" \in currentActivities' /\ "inactive" \notin currentActivities

\* C36 as stated: INACTIVE is entered only from IDLE, INACTIVE_THRESHOLD after
\* goIdle, and IDLE is entered only IDLE_THRESHOLD after the latest
\* recordActivity.
C36_IdleOnlyAfterRecordActivity ==
    [][/\ EntersInactive =>
            /\ currentActivities = {"idle"}
            /\ now = enteredIdleAt + INACTIVE_THRESHOLD_MS
       /\ EntersIdle =>
            /\ lastRecordAt # NoTime
            /\ now = lastRecordAt + IDLE_THRESHOLD_MS]_vars

\* C36, amended: INACTIVE is entered only from IDLE, INACTIVE_THRESHOLD after
\* goIdle; IDLE is entered IDLE_THRESHOLD after the latest resetTimers(), which
\* recordActivity or initStateManager called, and so never earlier than
\* IDLE_THRESHOLD after the latest recordActivity; the timeouts that are set
\* are those of the two handles, the idle one of the latest resetTimers().
C36_NoStaleTimer ==
    /\ [][/\ EntersInactive =>
               /\ currentActivities = {"idle"}
               /\ now = enteredIdleAt + INACTIVE_THRESHOLD_MS
          /\ EntersIdle =>
               /\ now = LastResetAt + IDLE_THRESHOLD_MS
               /\ lastRecordAt # NoTime => now >= lastRecordAt + IDLE_THRESHOLD_MS
          /\ (\E name \in StateNames : TimedRecordActivity(name)) =>
               stPending' = {Timeout("idle", now + IDLE_THRESHOLD_MS)}]_vars
    /\ [](stPending \subseteq {Timeout("idle", LastResetAt + IDLE_THRESHOLD_MS),
                               Timeout("inactive", enteredIdleAt + INACTIVE_THRESHOLD_MS)})

\* an activity was recorded while the state was idle and the inactive timeout
\* was set; the state went idle again 90 s after that call and inactive 60 s
\* later
C36_Witness ==
    /\ currentActivities = {"inactive"}
    /\ lastRecordAt > 0
    /\ enteredIdleAt = lastRecordAt + IDLE_THRESHOLD_MS
    /\ now = enteredIdleAt + INACTIVE_THRESHOLD_MS
    /\ lastRecordAt < initAt + IDLE_THRESHOLD_MS + INACTIVE_THRESHOLD_MS
    /\ lastRecordAt > initAt + IDLE_THRESHOLD_MS

\* ----------------------------------------- the daily productive-time counter
\* UTC midnights in one behaviour
MaxDays == 1

\* `const todayDate = new Date()` of startTracking(): the day the tracker of
\* InitTracker was started on
todayDate == 0

\* the wall clock passes UTC midnight
Midnight ==
    /\ utcDay < MaxDays
    /\ utcDay' = utcDay + 1
    /\ UNCHANGED <<dailySummary, coreVars, genVars, scaleVars, trackerVars, stateVars,
                   callerVars, debounceVars, timerVars>>

NextTrackerDaily ==
    \/ StoreUserInfo
    \/ \E activity \in RealNames : RecordActivity(activity, EmptyMeta)
    \/ IdleCheckerTick
    \/ GenerateEvent
    \/ Dispose
    \/ Midnight

\* the activity tracker running across UTC midnight
SpecTrackerDaily == InitTrackerSpec /\ [][NextTrackerDaily]_vars

\* generateEvent() pushes an event
EmitsEvent == GenerateEvent /\ Len(events') = Len(events) + 1

\* C31: within a UTC day the counter of the tracker never decreases, and the
\* first accumulation after the day has rolled over starts from 0 for the new
\* date.
C31_NewDayStartsFromZero ==
    [][/\ utcDay' = utcDay /\ todayDate = utcDay => dailyProductiveMs' >= dailyProductiveMs
       /\ EmitsEvent =>
            dailyProductiveMs' =
               (IF todayDate = utcDay THEN dailyProductiveMs ELSE 0)
                  + ProductiveSum(events'[Len(events')].activities)]_vars

\* the counter of the tracker grows with every event by the productive
\* durations of that event, whatever the day is
TrackerAddsProductiveSum ==
    [][IF EmitsEvent
         THEN dailyProductiveMs' =
                 dailyProductiveMs + ProductiveSum(events'[Len(events')].activities)
         ELSE dailyProductiveMs' = dailyProductiveMs]_vars

\* an event with productive time was emitted on each side of midnight
TrackerCountedAcrossMidnight ==
    /\ utcDay = 1
    /\ Len(events) = 2
    /\ dailyProductiveMs = 2 * PULSE_GENERATION_INTERVAL

\* ------------------------------------------ the daily summary of storage.ts
\* the activities of the pulses generatePulse hands to addPulse
Activities(names) ==
    [i \in DOMAIN names |-> [name |-> names[i], duration_ms |-> PULSE_GENERATION_INTERVAL]]

AddedActivities ==
    {Activities(<<"coding">>), Activities(<<"coding", "debugging">>), Activities(<<"idle">>)}

\* getDailySummary() on day today: the stored summary when it is of today,
\* else a new one
getDailySummary(summary, today) ==
    IF summary.date = today THEN summary ELSE [date |-> today, productiveTimeMs |-> 0]

\* `pulse.activities.some(...)`
isProductive(acts) == \E i \in DOMAIN acts : acts[i].name \in PRODUCTIVE_ACTIVITIES

\* a summary that counts the window twice
CountPulseTwice(summary, today) ==
    [getDailySummary(summary, today) EXCEPT
       !.productiveTimeMs = @ + 2 * PULSE_GENERATION_INTERVAL]

\* `summary.productiveTimeMs += PULSE_GENERATION_INTERVAL` on getDailySummary()
CountPulse(summary, today) ==
    [getDailySummary(summary, today) EXCEPT
       !.productiveTimeMs = @ + PULSE_GENERATION_INTERVAL]

\* addPulse() after `await savePulses(pulses)`, whose pulse has the activities
\* acts, which nothing has read before: a rejection is caught, else a productive
\* pulse is counted in the summary of today and the summary is saved
AddPulseSummary(p, acts) ==
    /\ add[p] \in {"saving", "savingErr"}
    /\ add' = [add EXCEPT ![p] = "done"]
    /\ \E rejected \in WriteOutcomes :
         dailySummary' = IF add[p] = "saving" /\ isProductive(acts) /\ ~rejected
                           THEN CountPulse(dailySummary, utcDay)
                           ELSE dailySummary
    /\ UNCHANGED <<pulseBuffer, sync, received, authVars, mgrVars, faults, queueVars,
                   utcDay, genVars, scaleVars, trackerVars, stateVars, callerVars,
                   debounceVars, timerVars>>

NextDaily ==
    \/ StoreApiKey
    \/ StoreUserInfo
    \/ Start
    \/ \E s \in SyncIds : SyncIntervalTick(s)
    \/ \E p \in Pulses : GeneratePulse(p)
    \/ \E p \in Pulses, acts \in AddedActivities : AddPulseSummary(p, acts)
    \/ \E s \in SyncIds : SyncCleared(s)
    \/ \E s \in SyncIds : SyncGotKey(s)
    \/ \E s \in SyncIds : SyncResponse(s)
    \/ \E s \in SyncIds : SyncTransportError(s)
    \/ \E s \in SyncIds : SyncText(s)
    \/ \E s \in SyncIds : SyncRebufTry(s)
    \/ \E s \in SyncIds : SyncRebufCatch(s)
    \/ Midnight

\* the outbox with pulses of any activities, across UTC midnight
SpecDaily == Init /\ [][NextDaily]_vars

\* C32: a pulse that addPulse has stored raises the productive time of the day
\* by the sum of the durations of its productive activities, and by 0 when it
\* has none.
C32_CounterGrowsByProductiveSum ==
    [][\A p \in Pulses, acts \in AddedActivities :
         AddPulseSummary(p, acts) /\ add[p] = "saving" =>
            dailySummary'.productiveTimeMs =
               getDailySummary(dailySummary, utcDay).productiveTimeMs
                  + ProductiveSum(acts)]_vars

\* the productive time of the stored summary
productiveTimeMs == dailySummary.productiveTimeMs

\* the calls of addPulse that have returned
AddsDone == {p \in Pulses : add[p] = "done"}

\* C38: the summary changes only in addPulse, once per call, by one window: no
\* step of sync(), re-buffering included, changes it, and the productive time
\* never exceeds one window per pulse added.
C38_PulseCountedOnce ==
    /\ [][dailySummary' # dailySummary =>
             /\ Cardinality(AddsDone') = Cardinality(AddsDone) + 1
             /\ sync' = sync
             /\ pulseBuffer' = pulseBuffer]_vars
    /\ [](productiveTimeMs <= PULSE_GENERATION_INTERVAL * Cardinality(AddsDone))

\* one productive pulse was added and counted; a sync() failed and re-buffered
\* it, a later sync() delivered it, and it is still counted once
C38_Witness ==
    /\ AddsDone = {1}
    /\ add[2] = "none"
    /\ productiveTimeMs = PULSE_GENERATION_INTERVAL
    /\ \E s, t \in SyncIds :
         /\ s < t
         /\ sync[s].result = "false"
         /\ sync[t].result = "true"
    /\ 1 \in received
    /\ pulseBuffer = <<>>

====
